---------------------------- MODULE Spec2Model ----------------------------
(***************************************************************************)
(* Model of the Clients data-access object (models/client_model.py) and of *)
(* the Toplevel base window (classes/base_window.py).                      *)
(*                                                                         *)
(*   Spec        one writer running the DAO operations, each one atomic    *)
(*   SpecRace    two connections whose creer() steps interleave            *)
(*   SpecFenetre windows: construction, close handler, image cache         *)
(***************************************************************************)
EXTENDS Integers, Sequences, FiniteSets

VARIABLES
    table,      \* rows of the Clients table, in insertion (rowid) order
    pkUnique,   \* schema: TRUE when IDCLIENT carries a unique key
    dernier,    \* the last DAO call: [op, arg, ret, nreq]
    attribues,  \* history: identifiers returned by creer() so far
    ecrivains,  \* SpecRace: the connections that write
    appels,     \* SpecRace: per connection, its creer() call in progress
    fenetres,   \* SpecFenetre: per window, its position in __init__/close
    grab,       \* SpecFenetre: the window holding the input capture
    cache,      \* SpecFenetre: per window, _cache_images
    fichiers,   \* SpecFenetre: per file name, what IMAGES_DIR holds
    nbImages,   \* SpecFenetre: PhotoImage objects created so far
    derniereImage  \* SpecFenetre: the last charger_image call

daoVars == <<table, pkUnique, dernier, attribues>>

raceVars == <<ecrivains, appels>>

fenVars == <<fenetres, grab, cache, fichiers, nbImages, derniereImage>>

vars == <<daoVars, raceVars, fenVars>>

---------------------------------------------------------------------------
(* Bounds and input domains *)

\* creer() is not called once the next identifier would exceed MaxId
MaxId == 3

\* Python None / SQL NULL for an identifier; never the identifier of a row
None == 0

\* Names are sequences of one-character strings
Noms == { <<"a", "b">>, <<"A", "_">> }

\* Search strings handed to rechercher()
Recherches ==
    { <<>>, <<"a">>, <<"b">>, <<"_">>, <<"%">>,
      <<"a", "b">>, <<"a", "_">>, <<"a", "%", "b">> }

\* The nine non-name, non-identifier field values come in two sheets that
\* differ in every field
Profils ==
    { [numero_telephone |-> "0102030405", adresse |-> "1 rue A",
       code_postal |-> "75001", ville |-> "Paris",
       date_naissance |-> "1990-01-01", credit_disponible |-> 0,
       bon_client |-> FALSE, couleur_cheveux |-> "brun"],
      [numero_telephone |-> "0607080910", adresse |-> "2 rue B",
       code_postal |-> "69002", ville |-> "Lyon",
       date_naissance |-> "1985-12-31", credit_disponible |-> 250,
       bon_client |-> TRUE, couleur_cheveux |-> "blond"] }

\* dataclass Client
Client(id, nom, p) ==
    [idclient |-> id, nom_client |-> nom,
     numero_telephone |-> p.numero_telephone, adresse |-> p.adresse,
     code_postal |-> p.code_postal, ville |-> p.ville,
     date_naissance |-> p.date_naissance,
     credit_disponible |-> p.credit_disponible,
     bon_client |-> p.bon_client, couleur_cheveux |-> p.couleur_cheveux]

ClientsAvecId(ids) == { Client(id, n, p) : id \in ids, n \in Noms, p \in Profils }

\* Records handed to creer(): identifier absent, or a stale one
ClientsACreer == ClientsAvecId({None, 1})

\* Records handed to modifier(): identifier absent, present in the table or not
ClientsAModifier == ClientsAvecId({None} \cup (1..MaxId))

IdsDemandes == {None} \cup (1..MaxId)

ListesIds ==
    { <<>> } \cup { <<a>> : a \in 1..MaxId }
             \cup { <<a, b>> : a \in 1..MaxId, b \in 1..MaxId }

---------------------------------------------------------------------------
(* Client: conversions between the object, the SQL parameters and a row *)

\* int(bool)
IntDeBool(b) == IF b THEN 1 ELSE 0

\* bool(int)
BoolDeInt(n) == n # 0

en_tuple_insertion_champs_permutes(c) ==
    << c.nom_client, c.numero_telephone, c.ville, c.code_postal,
       c.adresse, c.date_naissance, c.credit_disponible,
       IntDeBool(c.bon_client), c.couleur_cheveux >>

en_tuple_insertion(c) ==
    << c.nom_client, c.numero_telephone, c.adresse, c.code_postal,
       c.ville, c.date_naissance, c.credit_disponible,
       IntDeBool(c.bon_client), c.couleur_cheveux >>

en_tuple_modification(c) ==
    << c.nom_client, c.numero_telephone, c.adresse, c.code_postal,
       c.ville, c.date_naissance, c.credit_disponible,
       IntDeBool(c.bon_client), c.couleur_cheveux, c.idclient >>

depuis_row(row) ==
    [idclient |-> row.IDCLIENT, nom_client |-> row.nom_client,
     numero_telephone |-> row.numero_telephone, adresse |-> row.adresse,
     code_postal |-> row.code_postal, ville |-> row.ville,
     date_naissance |-> row.date_naissance,
     credit_disponible |-> row.credit_disponible,
     bon_client |-> BoolDeInt(row.bon_client),
     couleur_cheveux |-> row.couleur_cheveux]

---------------------------------------------------------------------------
(* The SQL statements of ClientDAO, evaluated on the table *)

Ids(t) == { t[i].IDCLIENT : i \in DOMAIN t }

MaxDe(S) == CHOOSE m \in S : \A x \in S : x <= m

ProchainIdParComptage(t) == Len(t) + 1

\* SELECT COALESCE(MAX(IDCLIENT), 0) + 1 AS prochain FROM Clients
ProchainId(t) == (IF t = <<>> THEN 0 ELSE MaxDe(Ids(t))) + 1

\* INSERT INTO Clients (IDCLIENT, nom_client, ...) VALUES (?, ..., ?):
\* the row the ten positional parameters make
LigneInseree(params) ==
    [IDCLIENT |-> params[1], nom_client |-> params[2],
     numero_telephone |-> params[3], adresse |-> params[4],
     code_postal |-> params[5], ville |-> params[6],
     date_naissance |-> params[7], credit_disponible |-> params[8],
     bon_client |-> params[9], couleur_cheveux |-> params[10]]

\* UPDATE Clients SET nom_client = ?, ... : the row after the SET list
LigneModifiee(row, params) ==
    [IDCLIENT |-> row.IDCLIENT, nom_client |-> params[1],
     numero_telephone |-> params[2], adresse |-> params[3],
     code_postal |-> params[4], ville |-> params[5],
     date_naissance |-> params[6], credit_disponible |-> params[7],
     bon_client |-> params[8], couleur_cheveux |-> params[9]]

\* WHERE IDCLIENT = ? (a NULL parameter matches no row)
ClauseWhereId(row, id) == id # None /\ row.IDCLIENT = id

\* db.executer() of the INSERT: the statement fails, and executer() returns
\* None, when the key is unique and already present
ExecuterInsert(t, ligne, pk) ==
    IF pk /\ ligne.IDCLIENT \in Ids(t)
    THEN [curseur |-> FALSE, table |-> t]
    ELSE [curseur |-> TRUE, table |-> Append(t, ligne)]

UpdateSansWhere(row, params) == TRUE

\* UPDATE ... WHERE IDCLIENT = ?, the identifier being the tenth parameter
WhereUpdate(row, params) == ClauseWhereId(row, params[10])

\* db.executer() of the UPDATE
ExecuterUpdate(t, params) ==
    [curseur |-> TRUE,
     table |-> [i \in DOMAIN t |->
                   IF WhereUpdate(t[i], params)
                   THEN LigneModifiee(t[i], params)
                   ELSE t[i]]]

\* db.executer() of DELETE ... WHERE IDCLIENT = ?
ExecuterDelete(t, id) ==
    [curseur |-> TRUE,
     table |-> SelectSeq(t, LAMBDA r : ~ClauseWhereId(r, id))]

DansListe(x, params) == \E k \in DOMAIN params : params[k] = x

\* db.executer() of DELETE ... WHERE IDCLIENT IN (?, ..., ?): the statement
\* is rejected when the placeholders and the parameters differ in number
ExecuterDeleteIn(t, nbPlaceholders, params) ==
    IF nbPlaceholders # Len(params)
    THEN [curseur |-> FALSE, table |-> t]
    ELSE [curseur |-> TRUE,
          table |-> SelectSeq(t, LAMBDA r : ~DansListe(r.IDCLIENT, params))]

\* db.interroger() of SELECT * FROM Clients WHERE IDCLIENT = ?
InterrogerParId(t, id) == SelectSeq(t, LAMBDA r : ClauseWhereId(r, id))

---------------------------------------------------------------------------
(* rechercher(): the LIKE operator and ORDER BY of the engine *)

\* LIKE compares ASCII letters without regard to case
Pli(ch) == IF ch = "A" THEN "a" ELSE IF ch = "B" THEN "b" ELSE ch

\* Byte value of a character, for the BINARY collation of ORDER BY
Code(ch) ==
    CASE ch = "%" -> 37
      [] ch = "A" -> 65
      [] ch = "B" -> 66
      [] ch = "_" -> 95
      [] ch = "a" -> 97
      [] ch = "b" -> 98

RECURSIVE Like(_, _)
\* s LIKE motif: '%' stands for any run of characters, '_' for any one
Like(motif, s) ==
    IF motif = <<>> THEN s = <<>>
    ELSE IF Head(motif) = "%"
         THEN Like(Tail(motif), s) \/ (s # <<>> /\ Like(motif, Tail(s)))
    ELSE IF Head(motif) = "_"
         THEN s # <<>> /\ Like(Tail(motif), Tail(s))
    ELSE s # <<>> /\ Pli(Head(motif)) = Pli(Head(s))
                  /\ Like(Tail(motif), Tail(s))

\* f"%{nom}%": the search string is pasted between two wildcards as it is
MotifRecherche(nom) == <<"%">> \o nom \o <<"%">>

RECURSIVE InfEg(_, _)
\* a <= b, byte by byte
InfEg(a, b) ==
    IF a = <<>> THEN TRUE
    ELSE IF b = <<>> THEN FALSE
    ELSE IF Code(Head(a)) < Code(Head(b)) THEN TRUE
    ELSE IF Code(Head(a)) > Code(Head(b)) THEN FALSE
    ELSE InfEg(Tail(a), Tail(b))

\* The row numbers SELECT ... WHERE nom_client LIKE ? selects
LignesTrouvees(t, motif) == { i \in DOMAIN t : Like(motif, t[i].nom_client) }

\* The rows of S whose name no other row of S precedes
Premiers(t, S) ==
    { i \in S : \A j \in S : InfEg(t[i].nom_client, t[j].nom_client) }

MinDe(S) == CHOOSE m \in S : \A x \in S : m <= x

RECURSIVE OrderByNom(_, _)
\* ORDER BY nom_client ASC over the rows S: ascending names, rows of equal
\* names in table order (the engine's sorter keeps their sequence)
OrderByNom(t, S) ==
    IF S = {} THEN <<>>
    ELSE LET i == MinDe(Premiers(t, S))
         IN  <<i>> \o OrderByNom(t, S \ {i})

---------------------------------------------------------------------------
(* ClientDAO: one action per method, the whole method in one step *)

Appel(op, arg, ret, nreq) == [op |-> op, arg |-> arg, ret |-> ret, nreq |-> nreq]

RetourCreerSansTest(curseur, prochain_id) == prochain_id

ParamsInsertIdDuClient(prochain_id, client) ==
    << IF client.idclient # None THEN client.idclient ELSE prochain_id >>
        \o en_tuple_insertion(client)

\* if curseur is not None: return prochain_id / return None
RetourCreer(curseur, prochain_id) == IF curseur THEN prochain_id ELSE None

\* the parameters of the INSERT: (prochain_id,) + client.en_tuple_insertion()
ParamsInsert(prochain_id, client) == <<prochain_id>> \o en_tuple_insertion(client)

\* ClientDAO.creer
Creer(client) ==
    LET prochain_id == ProchainId(table)
        res == ExecuterInsert(table, LigneInseree(ParamsInsert(prochain_id, client)),
                              pkUnique)
        ret == RetourCreer(res.curseur, prochain_id)
    IN  /\ prochain_id <= MaxId
        /\ table' = res.table
        /\ dernier' = Appel("creer", client, ret, 2)
        /\ attribues' = IF ret # None THEN attribues \cup {ret} ELSE attribues
        /\ UNCHANGED <<pkUnique, raceVars, fenVars>>

\* ClientDAO.lire as a function of the table: <<>> stands for None, <<c>>
\* for the Client c
lire(t, idclient) ==
    LET rows == InterrogerParId(t, idclient)
    IN  IF rows # <<>> THEN << depuis_row(rows[1]) >> ELSE <<>>

\* ClientDAO.lire
Lire(idclient) ==
    /\ dernier' = Appel("lire", idclient, lire(table, idclient), 1)
    /\ UNCHANGED <<table, pkUnique, attribues, raceVars, fenVars>>

\* ClientDAO.modifier
Modifier(client) ==
    LET res == ExecuterUpdate(table, en_tuple_modification(client))
    IN  /\ table' = res.table
        /\ dernier' = Appel("modifier", client, res.curseur, 1)
        /\ UNCHANGED <<pkUnique, attribues, raceVars, fenVars>>

\* ClientDAO.supprimer
Supprimer(idclient) ==
    LET res == ExecuterDelete(table, idclient)
    IN  /\ table' = res.table
        /\ dernier' = Appel("supprimer", idclient, res.curseur, 1)
        /\ UNCHANGED <<pkUnique, attribues, raceVars, fenVars>>

PlaceholdersUnSeul(ids) == 1

\* ", ".join("?" * len(ids)): the number of placeholders of the statement
Placeholders(ids) == Len(ids)

\* ClientDAO.supprimer_plusieurs as a function of the table
SupprimerPlusieursResultat(t, ids) ==
    IF ids = <<>>
    THEN [table |-> t, ret |-> TRUE, nreq |-> 0]
    ELSE LET res == ExecuterDeleteIn(t, Placeholders(ids), ids)
         IN  [table |-> res.table, ret |-> res.curseur, nreq |-> 1]

\* ClientDAO.supprimer_plusieurs
SupprimerPlusieurs(ids) ==
    LET r == SupprimerPlusieursResultat(table, ids)
    IN  /\ table' = r.table
        /\ dernier' = Appel("supprimer_plusieurs", ids, r.ret, r.nreq)
        /\ UNCHANGED <<pkUnique, attribues, raceVars, fenVars>>

\* ClientDAO.rechercher as a function of the table
rechercher(t, nom) ==
    LET rows == OrderByNom(t, LignesTrouvees(t, MotifRecherche(nom)))
    IN  [k \in DOMAIN rows |-> depuis_row(t[rows[k]])]

\* ClientDAO.rechercher
Rechercher(nom) ==
    /\ dernier' = Appel("rechercher", nom, rechercher(table, nom), 1)
    /\ UNCHANGED <<table, pkUnique, attribues, raceVars, fenVars>>

---------------------------------------------------------------------------
(* Two connections running creer(): the SELECT and the INSERT are two      *)
(* statements, and the other connection may run between them               *)

Connexions == { "c1", "c2" }

\* Records the racing connections insert
ClientsEnCourse == ClientsAvecId({None})

AuRepos == [pc |-> "repos", prochain_id |-> None, client |-> None, ret |-> None]

\* creer(), lines 141-144: the SELECT, its result kept in prochain_id
CreerSelect(e, client) ==
    LET prochain_id == ProchainId(table)
    IN  /\ e \in ecrivains
        /\ appels[e].pc # "select"
        /\ prochain_id <= MaxId
        /\ appels' = [appels EXCEPT ![e] =
               [pc |-> "select", prochain_id |-> prochain_id,
                client |-> client, ret |-> None]]
        /\ UNCHANGED <<daoVars, ecrivains, fenVars>>

ClientApresCreerIdAffecte(client, ret) ==
    IF ret # None THEN [client EXCEPT !.idclient = ret] ELSE client

\* The caller's Client object once creer() has returned ret: creer() reads
\* it through en_tuple_insertion() and assigns none of its fields
ClientApresCreer(client, ret) == client

\* creer(), lines 146-156: the INSERT with the identifier read before, and
\* the return
CreerInsert(e) ==
    LET a == appels[e]
        res == ExecuterInsert(table,
                   LigneInseree(ParamsInsert(a.prochain_id, a.client)), pkUnique)
    IN  /\ e \in ecrivains
        /\ a.pc = "select"
        /\ table' = res.table
        /\ appels' = [appels EXCEPT ![e] =
               [a EXCEPT !.pc = "retour",
                         !.client = ClientApresCreer(a.client,
                                        RetourCreer(res.curseur, a.prochain_id)),
                         !.ret = RetourCreer(res.curseur, a.prochain_id)]]
        /\ UNCHANGED <<pkUnique, dernier, attribues, ecrivains, fenVars>>

\* modifier() called with the very object creer() was given, once creer()
\* has returned
ModifierMemeObjet(e) ==
    LET a == appels[e]
        res == ExecuterUpdate(table, en_tuple_modification(a.client))
    IN  /\ e \in ecrivains
        /\ a.pc = "retour"
        /\ table' = res.table
        /\ appels' = [appels EXCEPT ![e] = [a EXCEPT !.pc = "modifie"]]
        /\ UNCHANGED <<pkUnique, dernier, attribues, ecrivains, fenVars>>

InitRaceAuRepos ==
    /\ ecrivains = {}
    /\ appels = [e \in Connexions |-> AuRepos]

---------------------------------------------------------------------------
(* FenetreBase: __init__ and _on_fermeture statement by statement, and     *)
(* charger_image                                                           *)

Fenetres == { "f1", "f2" }

NomsFichiers == { "Base_create.png", "Base_delete.png" }

\* What IMAGES_DIR holds under a name: nothing, a PNG, or a file that
\* PhotoImage cannot decode
EtatsFichier == { "absent", "png", "illisible" }

\* charger_image creates no PhotoImage once MaxImages exist
MaxImages == 3

Aucune == "aucune"

\* self.grab_set(): the capture goes to this window
GrabSet(g, w) == w

GrabReleaseOublie(g, w) == g

\* self.grab_release(): releases the capture if this window holds it
GrabRelease(g, w) == IF g = w THEN Aucune ELSE g

\* __init__, lines 57-64: the Toplevel is created, titled and sized
Construire(w, modale) ==
    /\ fenetres[w].pc = "debut"
    /\ fenetres' = [fenetres EXCEPT ![w] = [pc |-> "construite", modale |-> modale]]
    /\ UNCHANGED <<daoVars, raceVars, grab, cache, fichiers, nbImages, derniereImage>>

\* __init__, lines 67-69: if modale: transient(parent); grab_set()
Modalite(w) ==
    /\ fenetres[w].pc = "construite"
    /\ fenetres[w].modale
    /\ grab' = GrabSet(grab, w)
    /\ fenetres' = [fenetres EXCEPT ![w].pc = "modale"]
    /\ UNCHANGED <<daoVars, raceVars, cache, fichiers, nbImages, derniereImage>>

\* __init__, line 72: self._centrer(parent, largeur, hauteur), reached
\* after grab_set() by a modal window and straight away by the others
Centrer(w) ==
    /\ \/ fenetres[w].pc = "modale"
       \/ fenetres[w].pc = "construite" /\ ~fenetres[w].modale
    /\ fenetres' = [fenetres EXCEPT ![w].pc = "positionnee"]
    /\ UNCHANGED <<daoVars, raceVars, grab, cache, fichiers, nbImages, derniereImage>>

\* __init__, lines 75-78: the close handler is registered and the cache is
\* created empty
FinInit(w) ==
    /\ fenetres[w].pc = "positionnee"
    /\ fenetres' = [fenetres EXCEPT ![w].pc = "prete"]
    /\ cache' = [cache EXCEPT ![w] = << >>]
    /\ UNCHANGED <<daoVars, raceVars, grab, fichiers, nbImages, derniereImage>>

\* _on_fermeture, line 119: self.grab_release()
FermetureGrabRelease(w) ==
    /\ fenetres[w].pc = "prete"
    /\ grab' = GrabRelease(grab, w)
    /\ fenetres' = [fenetres EXCEPT ![w].pc = "fermeture"]
    /\ UNCHANGED <<daoVars, raceVars, cache, fichiers, nbImages, derniereImage>>

\* _on_fermeture, line 120: self.destroy()
FermetureDestroy(w) ==
    /\ fenetres[w].pc = "fermeture"
    /\ fenetres' = [fenetres EXCEPT ![w].pc = "detruite"]
    /\ UNCHANGED <<daoVars, raceVars, grab, cache, fichiers, nbImages, derniereImage>>

AppelImage(w, nom, ret, lu) == [fenetre |-> w, nom |-> nom, ret |-> ret, lu |-> lu]

ChargerImageFichierDAbord(c, nom, fichier, photo) ==
    IF fichier = "absent"
    THEN [ret |-> None, cache |-> c, lu |-> FALSE]
    ELSE IF nom \in DOMAIN c
    THEN [ret |-> c[nom], cache |-> c, lu |-> FALSE]
    ELSE IF fichier = "png"
    THEN [ret |-> photo,
          cache |-> [n \in DOMAIN c \cup {nom} |-> IF n = nom THEN photo ELSE c[n]],
          lu |-> TRUE]
    ELSE [ret |-> None, cache |-> c, lu |-> TRUE]

\* charger_image as a function of the window's cache c, the file under
\* that name and the PhotoImage a successful load would create
ChargerImageResultat(c, nom, fichier, photo) ==
    IF nom \in DOMAIN c
    THEN [ret |-> c[nom], cache |-> c, lu |-> FALSE]
    ELSE IF fichier = "absent"
    THEN [ret |-> None, cache |-> c, lu |-> FALSE]
    ELSE IF fichier = "png"
    THEN [ret |-> photo,
          cache |-> [n \in DOMAIN c \cup {nom} |-> IF n = nom THEN photo ELSE c[n]],
          lu |-> TRUE]
    ELSE [ret |-> None, cache |-> c, lu |-> TRUE]

\* FenetreBase.charger_image, called on a constructed, live window
ChargerImage(w, nom) ==
    LET r == ChargerImageResultat(cache[w], nom, fichiers[nom], nbImages + 1)
    IN  /\ fenetres[w].pc = "prete"
        /\ r.ret # None => nbImages < MaxImages \/ nom \in DOMAIN cache[w]
        /\ cache' = [cache EXCEPT ![w] = r.cache]
        /\ nbImages' = IF r.ret # None /\ r.lu THEN nbImages + 1 ELSE nbImages
        /\ derniereImage' = AppelImage(w, nom, r.ret, r.lu)
        /\ UNCHANGED <<daoVars, raceVars, fenetres, grab, fichiers>>

\* The image directory changes under the application
ChangerFichier(nom, etat) ==
    /\ fichiers[nom] # etat
    /\ fichiers' = [fichiers EXCEPT ![nom] = etat]
    /\ UNCHANGED <<daoVars, raceVars, fenetres, grab, cache, nbImages, derniereImage>>

InitFenetresAbsentes ==
    /\ fenetres = [w \in Fenetres |-> [pc |-> "debut", modale |-> FALSE]]
    /\ grab = Aucune
    /\ cache = [w \in Fenetres |-> << >>]
    /\ fichiers = [nom \in NomsFichiers |-> "absent"]
    /\ nbImages = 0
    /\ derniereImage = AppelImage(Aucune, Aucune, None, FALSE)

---------------------------------------------------------------------------
(* Specifications *)

\* An empty table, in a schema with or without a unique key on IDCLIENT
InitDao ==
    /\ table = <<>>
    /\ pkUnique \in BOOLEAN
    /\ dernier = Appel("init", None, None, 0)
    /\ attribues = {}

Init == InitDao /\ InitRaceAuRepos /\ InitFenetresAbsentes

\* One writer issuing the four writing operations in any order
Next ==
    \/ \E c \in ClientsACreer : Creer(c)
    \/ \E c \in ClientsAModifier : Modifier(c)
    \/ \E id \in IdsDemandes : Supprimer(id)
    \/ \E ids \in ListesIds : SupprimerPlusieurs(ids)

Spec == Init /\ [][Next]_vars

\* One caller filling and emptying the table and reading it
NextLecture ==
    \/ \E c \in ClientsACreer : Creer(c)
    \/ \E id \in IdsDemandes : Supprimer(id)
    \/ \E id \in IdsDemandes : Lire(id)
    \/ \E nom \in Recherches : Rechercher(nom)

SpecLecture == Init /\ [][NextLecture]_vars

\* One or two connections, each running creer() again and again
InitRace ==
    /\ InitDao
    /\ ecrivains \in { {"c1"}, {"c1", "c2"} }
    /\ appels = [e \in Connexions |-> AuRepos]
    /\ InitFenetresAbsentes

NextRace ==
    \/ \E e \in Connexions, c \in ClientsEnCourse : CreerSelect(e, c)
    \/ \E e \in Connexions : CreerInsert(e)

SpecRace == InitRace /\ [][NextRace]_vars

\* Windows being built, used and closed while the image directory changes
NextFenetre ==
    \/ \E w \in Fenetres, modale \in BOOLEAN : Construire(w, modale)
    \/ \E w \in Fenetres : Modalite(w)
    \/ \E w \in Fenetres : Centrer(w)
    \/ \E w \in Fenetres : FinInit(w)
    \/ \E w \in Fenetres : FermetureGrabRelease(w)
    \/ \E w \in Fenetres : FermetureDestroy(w)
    \/ \E w \in Fenetres, nom \in NomsFichiers : ChargerImage(w, nom)
    \/ \E nom \in NomsFichiers, etat \in EtatsFichier : ChangerFichier(nom, etat)

SpecFenetre == Init /\ [][NextFenetre]_vars

\* Objects the caller builds, passes to creer() and then to modifier():
\* without identifier, or with a stale one
ClientsObjets == { Client(id, <<"a", "b">>, p) : id \in {None, 1}, p \in Profils }

\* One or two connections, each passing an object to creer() and then the
\* same object to modifier()
NextObjet ==
    \/ \E e \in Connexions, c \in ClientsObjets : CreerSelect(e, c)
    \/ \E e \in Connexions : CreerInsert(e)
    \/ \E e \in Connexions : ModifierMemeObjet(e)

SpecObjet == InitRace /\ [][NextObjet]_vars

---------------------------------------------------------------------------
(* Properties *)

\* The step is a creer() call that inserted a row and returned its identifier
CreationReussie ==
    /\ dernier'.op = "creer"
    /\ dernier'.ret # None
    /\ Len(table') = Len(table) + 1

\* C1: under one writer, in every state reached by creer, modifier,
\* supprimer and supprimer_plusieurs from the empty table, no two rows of
\* Clients carry the same identifier.
IdsUniques ==
    \A i, j \in DOMAIN table : i # j => table[i].IDCLIENT # table[j].IDCLIENT

\* C1 case: no key constraint helps, a row was deleted below the maximum
\* and creer() has inserted another one since
IdsUniquesTemoin ==
    /\ ~pkUnique
    /\ dernier.op = "creer"
    /\ Len(table) >= 2
    /\ 1 \notin Ids(table)

\* C2 as stated: an identifier returned by one creer() is never returned
\* again by a later creer(), also after the record that held it was deleted.
IdJamaisReattribue ==
    [][CreationReussie => dernier'.ret \notin attribues]_vars

\* C2 as amended: an identifier returned by creer() is greater than every
\* identifier then in the table, so it is never one a record still holds;
\* it comes back only once the record that held it and every record with a
\* greater identifier have been deleted.
IdAttribueAuDessusDeLaTable ==
    [][CreationReussie =>
         \A i \in DOMAIN table : table[i].IDCLIENT < dernier'.ret]_vars

\* C2 case: creer() has returned, into a table that is not empty, an
\* identifier below one it returned earlier, that is, one it had returned
\* before
IdReattribueTemoin ==
    /\ dernier.op = "creer"
    /\ dernier.ret # None
    /\ Len(table) >= 2
    /\ \E x \in attribues : x > dernier.ret

\* C3: a successful creer() returns 1 on an empty table and otherwise the
\* greatest identifier of the table plus one, and the row it appends carries
\* that identifier, whatever idclient the record passed in held.
CreerAttribueMaxPlusUn ==
    [][CreationReussie =>
         /\ table = <<>> => dernier'.ret = 1
         /\ table # <<>> =>
                /\ dernier'.ret - 1 \in Ids(table)
                /\ \A i \in DOMAIN table : table[i].IDCLIENT <= dernier'.ret - 1
         /\ SubSeq(table', 1, Len(table)) = table
         /\ table'[Len(table')].IDCLIENT = dernier'.ret]_vars

\* C3 case: creer() succeeded on a non-empty table with a record that held
\* another identifier than the one returned
CreerAttribueMaxPlusUnTemoin ==
    /\ dernier.op = "creer"
    /\ dernier.ret # None
    /\ dernier.arg.idclient # None
    /\ dernier.arg.idclient # dernier.ret
    /\ Len(table) >= 2

SansId(c) == [c EXCEPT !.idclient = None]

\* C4: creer(db, R) followed at once by lire(db, returned id) returns a
\* record equal to R in every field but the identifier.
CreerPuisLire ==
    dernier.op = "creer" /\ dernier.ret # None =>
        LET lu == lire(table, dernier.ret)
        IN  /\ lu # <<>>
            /\ SansId(lu[1]) = SansId(dernier.arg)

\* C4 case: a record without identifier, flagged bon_client, was created in
\* a table that held a row already
CreerPuisLireTemoin ==
    /\ dernier.op = "creer"
    /\ dernier.ret # None
    /\ dernier.arg.idclient = None
    /\ dernier.arg.bon_client
    /\ Len(table) >= 2

\* The nine non-identifier columns of a row are the fields of client c
ChampsDe(row, c) ==
    /\ row.nom_client = c.nom_client
    /\ row.numero_telephone = c.numero_telephone
    /\ row.adresse = c.adresse
    /\ row.code_postal = c.code_postal
    /\ row.ville = c.ville
    /\ row.date_naissance = c.date_naissance
    /\ row.credit_disponible = c.credit_disponible
    /\ row.bon_client = (IF c.bon_client THEN 1 ELSE 0)
    /\ row.couleur_cheveux = c.couleur_cheveux

\* C5: modifier(db, R) returns true, replaces the nine non-identifier fields
\* of the row whose identifier is R.idclient and leaves every other row and
\* the identifiers of the table as they were; when no row has that
\* identifier (R.idclient absent included) the table is left as it was.
ModifierNeToucheQueSaCible ==
    [][dernier'.op = "modifier" =>
         /\ dernier'.ret = TRUE
         /\ Len(table') = Len(table)
         /\ \A i \in DOMAIN table :
                IF dernier'.arg.idclient # None
                   /\ table[i].IDCLIENT = dernier'.arg.idclient
                THEN /\ table'[i].IDCLIENT = table[i].IDCLIENT
                     /\ ChampsDe(table'[i], dernier'.arg)
                ELSE table'[i] = table[i]]_vars

\* C5 case: modifier() has rewritten one row of a table that holds another
\* row with different fields
ModifierTemoin ==
    /\ dernier.op = "modifier"
    /\ \E i, j \in DOMAIN table :
          /\ table[i].IDCLIENT = dernier.arg.idclient
          /\ ChampsDe(table[i], dernier.arg)
          /\ table[j].IDCLIENT # dernier.arg.idclient
          /\ ~ChampsDe(table[j], dernier.arg)

\* C6: supprimer_plusieurs(db, ids) returns true; with an empty list it
\* issues no statement and leaves the table as it was; with a non-empty list
\* it removes the rows whose identifier is in ids, and only those (absent
\* identifiers and repeated ones are harmless).
SupprimerPlusieursCadre ==
    [][dernier'.op = "supprimer_plusieurs" =>
         /\ dernier'.ret = TRUE
         /\ dernier'.arg = <<>> => dernier'.nreq = 0 /\ table' = table
         /\ dernier'.arg # <<>> =>
                table' = SelectSeq(table,
                             LAMBDA r : \A k \in DOMAIN dernier'.arg :
                                            dernier'.arg[k] # r.IDCLIENT)]_vars

\* C6 case: supprimer_plusieurs() was given two different identifiers that
\* creer() had assigned, and a row with a third one is still there
SupprimerPlusieursTemoin ==
    /\ dernier.op = "supprimer_plusieurs"
    /\ Len(dernier.arg) = 2
    /\ dernier.arg[1] # dernier.arg[2]
    /\ { dernier.arg[1], dernier.arg[2] } \subseteq attribues
    /\ Len(table) = 1
    /\ Ids(table) \cap { dernier.arg[1], dernier.arg[2] } = {}

\* nom contains s as a substring, letters compared as the engine compares
\* them
Contient(nom, s) ==
    \E k \in 0..(Len(nom) - Len(s)) :
        \A j \in 1..Len(s) : Pli(nom[k + j]) = Pli(s[j])

\* C7: rechercher(db, s) returns exactly the records whose name contains s
\* as a substring, in ascending order of name, and every record when s is
\* empty; for every s, those holding '%' or '_' included.
RechercherSousChaineExacte ==
    dernier.op = "rechercher" =>
        /\ { dernier.ret[k] : k \in DOMAIN dernier.ret }
             = { depuis_row(table[i]) :
                   i \in { n \in DOMAIN table :
                             Contient(table[n].nom_client, dernier.arg) } }
        /\ \A k \in DOMAIN dernier.ret : \A m \in DOMAIN dernier.ret :
               k < m => InfEg(dernier.ret[k].nom_client, dernier.ret[m].nom_client)
        /\ dernier.arg = <<>> => Len(dernier.ret) = Len(table)

\* The step is a charger_image call (any other step leaves derniereImage
\* as it is)
AppelChargerImage == derniereImage' # derniereImage

\* No entry of a window's cache is removed or replaced
EntreesDuCacheGardees ==
    \A w \in Fenetres : \A n \in DOMAIN cache[w] :
        n \in DOMAIN cache'[w] /\ cache'[w][n] = cache[w][n]

\* A name in the window's cache gets the stored PhotoImage, and no file is
\* read
ImageDuCacheRendue ==
    LET w == derniereImage'.fenetre
        nom == derniereImage'.nom
    IN  nom \in DOMAIN cache[w] =>
            /\ derniereImage'.ret = cache[w][nom]
            /\ ~derniereImage'.lu
            /\ nbImages' = nbImages

NbLignes(t, id) == Cardinality({ i \in DOMAIN t : t[i].IDCLIENT = id })

\* C9: when the SELECT and the INSERT of two connections' creer() calls
\* interleave, both may compute the same identifier, and then the table holds
\* two rows with it or one of the two INSERTs failed; with one connection
\* neither happens.
CourseSurIdentifiant ==
    /\ Cardinality(ecrivains) = 1 =>
           /\ IdsUniques
           /\ \A e \in ecrivains : appels[e].pc = "retour" => appels[e].ret # None
    /\ \A e, f \in ecrivains :
           (/\ e # f
            /\ appels[e].pc = "retour" /\ appels[f].pc = "retour"
            /\ appels[e].prochain_id = appels[f].prochain_id) =>
               \/ NbLignes(table, appels[e].prochain_id) >= 2
               \/ appels[e].ret = None
               \/ appels[f].ret = None

\* C9 case: two connections have returned from creer() with the same
\* identifier and the table holds it twice
CourseTemoin ==
    \E e, f \in ecrivains :
        /\ e # f
        /\ appels[e].pc = "retour" /\ appels[f].pc = "retour"
        /\ appels[e].ret # None
        /\ appels[e].ret = appels[f].ret
        /\ NbLignes(table, appels[e].ret) = 2

\* The window has been placed by _centrer
Positionnee(w) == fenetres[w].pc \in { "positionnee", "prete" }

\* C10 as stated: a modal window acquires the input capture only after it
\* has been positioned, and a window is never destroyed while it holds the
\* capture.
CaptureApresPositionnement ==
    \A w \in Fenetres :
        /\ grab = w => Positionnee(w)
        /\ fenetres[w].pc = "detruite" => grab # w

\* The steps of a window, in the order of the code
PasDeFenetre(w) ==
    \/ fenetres'[w] = fenetres[w]
    \/ fenetres[w].pc = "debut" /\ fenetres'[w].pc = "construite"
    \/ /\ fenetres'[w].modale = fenetres[w].modale
       /\ \/ /\ fenetres[w].pc = "construite" /\ fenetres'[w].pc = "modale"
             /\ fenetres[w].modale
          \/ /\ fenetres[w].pc = "construite" /\ fenetres'[w].pc = "positionnee"
             /\ ~fenetres[w].modale
          \/ fenetres[w].pc = "modale" /\ fenetres'[w].pc = "positionnee"
          \/ fenetres[w].pc = "positionnee" /\ fenetres'[w].pc = "prete"
          \/ fenetres[w].pc = "prete" /\ fenetres'[w].pc = "fermeture"
          \/ fenetres[w].pc = "fermeture" /\ fenetres'[w].pc = "detruite"

\* C10 as amended: every window goes through constructed, modal-active
\* (modal windows only), positioned, closing, destroyed in that order: a
\* modal window acquires the capture before it is positioned, only a modal
\* window that is neither closing nor destroyed holds it, and the close
\* handler releases it before the window is destroyed.
OrdreDesEtats ==
    [][\A w \in Fenetres :
          /\ PasDeFenetre(w)
          /\ grab' = w =>
                 /\ fenetres'[w].modale
                 /\ fenetres'[w].pc \in { "modale", "positionnee", "prete" }
          /\ (fenetres[w].pc = "construite" /\ fenetres'[w].pc = "modale") =>
                 grab' = w
          /\ fenetres'[w].pc \in { "fermeture", "detruite" } => grab' # w]_vars

\* C10 case: a modal window that held the capture before it was positioned
\* has been closed and destroyed
OrdreDesEtatsTemoin ==
    \E w \in Fenetres :
        /\ fenetres[w].modale
        /\ fenetres[w].pc = "detruite"
        /\ grab = Aucune

\* C11: creer() does not modify the record object passed to it: when it
\* returns, with an identifier or with None, every field of the object,
\* idclient included, is what it was at the call; so modifier() called with
\* that object while its idclient is still None matches no row.
CreerLaisseLObjet ==
    [][\A e \in Connexions :
          /\ (appels[e].pc = "select" /\ appels'[e].pc = "retour") =>
                 appels'[e].client = appels[e].client
          /\ (/\ appels[e].pc = "retour" /\ appels'[e].pc = "modifie"
              /\ appels[e].client.idclient = None) =>
                 /\ table' = table
                 /\ appels[e].ret # None => appels[e].ret \in Ids(table)]_vars

\* C11 case: an object without identifier was inserted by creer(), then
\* passed to modifier(), while the creer() of the other connection had
\* failed
CreerLaisseLObjetTemoin ==
    \E e, f \in ecrivains :
        /\ e # f
        /\ appels[e].pc = "modifie"
        /\ appels[e].ret # None
        /\ appels[e].client.idclient = None
        /\ NbLignes(table, appels[e].ret) = 1
        /\ appels[f].pc = "retour"
        /\ appels[f].ret = None

===========================================================================
